---- MODULE Spec2Model ----
(***************************************************************************)
(* Model of app.js: a drachtio SIP application that connects each inbound  *)
(* call to a media endpoint and drives a dialogflow conversation on it.    *)
(*                                                                         *)
(* Each call has a media endpoint (`this` in the handlers) carrying the    *)
(* two flags hangupAfterPlayDone and waitingForPlayStart, and a SIP dialog *)
(* (dlg).  Node runs every handler to its first await without interleaving;*)
(* handleAudio suspends at `await this.play(..)` and resumes in a later    *)
(* step (PlayDone), and the setTimeout callback of handleIntent runs in a  *)
(* later step (TimerFire).  The event emitter does not queue events while  *)
(* an async handler is suspended.                                          *)
(***************************************************************************)
EXTENDS Naturals, Sequences, FiniteSets

\* Total number of dialogflow events delivered, over all calls.
MaxEvents == 3

Calls == {"c1", "c2"}

VARIABLES
  sess,                 \* handleInvite's position for the call
  hangupAfterPlayDone,  \* endpoint.hangupAfterPlayDone (undefined is falsy)
  waitingForPlayStart,  \* endpoint.waitingForPlayStart (undefined is falsy)
  timers,               \* pending setTimeout callbacks of handleIntent
  playing,              \* handleAudio invocations suspended in await this.play()
  dlgConnected,         \* the SIP dialog is up (neither side has sent BYE)
  cmds,                 \* commands issued for the call, in order
  hist,                 \* steps taken for the call that read or write its state
  nEvents,              \* dialogflow events delivered so far
  last                  \* the step just taken

vars == <<sess, hangupAfterPlayDone, waitingForPlayStart, timers, playing,
          dlgConnected, cmds, hist, nEvents, last>>

\* A command issued by step `by`; live tells whether the call was still up.
Cmd(op, by, c) == [op |-> op, by |-> by, live |-> dlgConnected[c]]

Step(c, ev) == [call |-> c, ev |-> ev]

Init ==
  /\ sess = [c \in Calls |-> "idle"]
  /\ hangupAfterPlayDone = [c \in Calls |-> FALSE]
  /\ waitingForPlayStart = [c \in Calls |-> FALSE]
  /\ timers = [c \in Calls |-> 0]
  /\ playing = [c \in Calls |-> 0]
  /\ dlgConnected = [c \in Calls |-> FALSE]
  /\ cmds = [c \in Calls |-> <<>>]
  /\ hist = [c \in Calls |-> <<>>]
  /\ nEvents = 0
  /\ last = Step("none", "none")

\* srf.invite(handleInvite): an INVITE arrives, handleInvite runs up to
\* await connectCaller().
Invite(c) ==
  /\ sess[c] = "idle"
  /\ sess' = [sess EXCEPT ![c] = "connecting"]
  /\ last' = Step(c, "invite")
  /\ UNCHANGED <<hangupAfterPlayDone, waitingForPlayStart, timers, playing,
                 dlgConnected, cmds, hist, nEvents>>

\* connectCaller() resolved: the handlers are subscribed and the first
\* dialogflow_start, with the welcome event, is sent.
ConnectOk(c) ==
  /\ sess[c] = "connecting"
  /\ sess' = [sess EXCEPT ![c] = "up"]
  /\ dlgConnected' = [dlgConnected EXCEPT ![c] = TRUE]
  /\ cmds' = [cmds EXCEPT ![c] =
                Append(@, [op |-> "dialogflow_start welcome", by |-> "invite",
                           live |-> TRUE])]
  /\ last' = Step(c, "connected")
  /\ UNCHANGED <<hangupAfterPlayDone, waitingForPlayStart, timers, playing,
                 hist, nEvents>>

\* handleInvite as it would be if the failure of connectCaller() were caught
\* and the function went on to line 86.
ConnectFail_StartsAnyway(c) ==
  /\ sess[c] = "connecting"
  /\ sess' = [sess EXCEPT ![c] = "failed"]
  /\ cmds' = [cmds EXCEPT ![c] =
                Append(@, [op |-> "dialogflow_start welcome", by |-> "invite",
                           live |-> FALSE])]
  /\ last' = Step(c, "connectfail")
  /\ UNCHANGED <<hangupAfterPlayDone, waitingForPlayStart, timers, playing,
                 dlgConnected, hist, nEvents>>

\* connectCaller() rejected (or srf.locals.ms is not set yet): handleInvite
\* throws at line 58 and nothing after it runs.
ConnectFail(c) ==
  /\ sess[c] = "connecting"
  /\ sess' = [sess EXCEPT ![c] = "failed"]
  /\ last' = Step(c, "connectfail")
  /\ UNCHANGED <<hangupAfterPlayDone, waitingForPlayStart, timers, playing,
                 dlgConnected, cmds, hist, nEvents>>

\* An event can be delivered once the handlers are subscribed.
CanDeliver(c) == sess[c] = "up" /\ nEvents < MaxEvents

\* handleIntent as it would be if the two flags were module-level variables
\* instead of properties of the call's endpoint.
HandleIntent_SharedFlags(c, end) ==
  /\ CanDeliver(c)
  /\ nEvents' = nEvents + 1
  /\ IF end
       THEN /\ hangupAfterPlayDone' = [d \in Calls |-> TRUE]
            /\ waitingForPlayStart' = [d \in Calls |-> TRUE]
            /\ timers' = [timers EXCEPT ![c] = @ + 1]
            /\ hist' = [hist EXCEPT ![c] = Append(@, "I")]
            /\ last' = Step(c, "intent_end")
       ELSE /\ hist' = [hist EXCEPT ![c] = Append(@, "N")]
            /\ last' = Step(c, "intent")
            /\ UNCHANGED <<hangupAfterPlayDone, waitingForPlayStart, timers>>
  /\ UNCHANGED <<sess, playing, dlgConnected, cmds>>

\* handleIntent as it would be without the test of end_interaction.
HandleIntent_AlwaysEnds(c, end) ==
  /\ CanDeliver(c)
  /\ nEvents' = nEvents + 1
  /\ hangupAfterPlayDone' = [hangupAfterPlayDone EXCEPT ![c] = TRUE]
  /\ waitingForPlayStart' = [waitingForPlayStart EXCEPT ![c] = TRUE]
  /\ timers' = [timers EXCEPT ![c] = @ + 1]
  /\ hist' = [hist EXCEPT ![c] = Append(@, IF end THEN "I" ELSE "N")]
  /\ last' = Step(c, IF end THEN "intent_end" ELSE "intent")
  /\ UNCHANGED <<sess, playing, dlgConnected, cmds>>

\* handleIntent without the setTimeout of lines 97-99.
HandleIntent_NoTimer(c, end) ==
  /\ CanDeliver(c)
  /\ nEvents' = nEvents + 1
  /\ IF end
       THEN /\ hangupAfterPlayDone' = [hangupAfterPlayDone EXCEPT ![c] = TRUE]
            /\ waitingForPlayStart' = [waitingForPlayStart EXCEPT ![c] = TRUE]
            /\ hist' = [hist EXCEPT ![c] = Append(@, "I")]
            /\ last' = Step(c, "intent_end")
       ELSE /\ hist' = [hist EXCEPT ![c] = Append(@, "N")]
            /\ last' = Step(c, "intent")
            /\ UNCHANGED <<hangupAfterPlayDone, waitingForPlayStart>>
  /\ UNCHANGED <<sess, timers, playing, dlgConnected, cmds>>

\* handleIntent as it would be if events were held back while a playback is
\* awaited: the intent has no effect during the wait.
HandleIntent_Deferred(c, end) ==
  /\ CanDeliver(c)
  /\ nEvents' = nEvents + 1
  /\ IF end /\ playing[c] = 0
       THEN /\ hangupAfterPlayDone' = [hangupAfterPlayDone EXCEPT ![c] = TRUE]
            /\ waitingForPlayStart' = [waitingForPlayStart EXCEPT ![c] = TRUE]
            /\ timers' = [timers EXCEPT ![c] = @ + 1]
            /\ hist' = [hist EXCEPT ![c] = Append(@, "I")]
       ELSE /\ hist' = [hist EXCEPT ![c] = Append(@, "N")]
            /\ UNCHANGED <<hangupAfterPlayDone, waitingForPlayStart, timers>>
  /\ last' = Step(c, IF end THEN "intent_end" ELSE "intent")
  /\ UNCHANGED <<sess, playing, dlgConnected, cmds>>

\* handleIntent(dlg, intent); end is intent.query_result.intent.end_interaction.
HandleIntent(c, end) ==
  /\ CanDeliver(c)
  /\ nEvents' = nEvents + 1
  /\ IF end
       THEN /\ hangupAfterPlayDone' = [hangupAfterPlayDone EXCEPT ![c] = TRUE]
            /\ waitingForPlayStart' = [waitingForPlayStart EXCEPT ![c] = TRUE]
            /\ timers' = [timers EXCEPT ![c] = @ + 1]
            /\ hist' = [hist EXCEPT ![c] = Append(@, "I")]
            /\ last' = Step(c, "intent_end")
       ELSE /\ hist' = [hist EXCEPT ![c] = Append(@, "N")]
            /\ last' = Step(c, "intent")
            /\ UNCHANGED <<hangupAfterPlayDone, waitingForPlayStart, timers>>
  /\ UNCHANGED <<sess, playing, dlgConnected, cmds>>

\* The timer callback as it would be if it released the endpoint as well.
TimerFire_DestroysEndpoint(c) ==
  /\ timers[c] > 0
  /\ timers' = [timers EXCEPT ![c] = @ - 1]
  /\ hist' = [hist EXCEPT ![c] = Append(@, "T")]
  /\ last' = Step(c, "timer")
  /\ IF waitingForPlayStart[c]
       THEN /\ cmds' = [cmds EXCEPT ![c] =
                          @ \o <<Cmd("dlg.destroy", "timer", c),
                                 Cmd("endpoint.destroy", "timer", c)>>]
            /\ dlgConnected' = [dlgConnected EXCEPT ![c] = FALSE]
       ELSE UNCHANGED <<cmds, dlgConnected>>
  /\ UNCHANGED <<sess, hangupAfterPlayDone, waitingForPlayStart, playing, nEvents>>

\* The setTimeout callback of handleIntent.
TimerFire(c) ==
  /\ timers[c] > 0
  /\ timers' = [timers EXCEPT ![c] = @ - 1]
  /\ hist' = [hist EXCEPT ![c] = Append(@, "T")]
  /\ last' = Step(c, "timer")
  /\ IF waitingForPlayStart[c]
       THEN /\ cmds' = [cmds EXCEPT ![c] = Append(@, Cmd("dlg.destroy", "timer", c))]
            /\ dlgConnected' = [dlgConnected EXCEPT ![c] = FALSE]
       ELSE UNCHANGED <<cmds, dlgConnected>>
  /\ UNCHANGED <<sess, hangupAfterPlayDone, waitingForPlayStart, playing, nEvents>>

\* handleTranscription(transcription): logs when is_final.
HandleTranscription(c, isFinal) ==
  /\ CanDeliver(c)
  /\ nEvents' = nEvents + 1
  /\ last' = Step(c, IF isFinal THEN "transcription_final" ELSE "transcription")
  /\ UNCHANGED <<sess, hangupAfterPlayDone, waitingForPlayStart, timers, playing,
                 dlgConnected, cmds, hist>>

\* handleEndOfUtterance(obj): logs.
HandleEndOfUtterance(c) ==
  /\ CanDeliver(c)
  /\ nEvents' = nEvents + 1
  /\ last' = Step(c, "end_of_utterance")
  /\ UNCHANGED <<sess, hangupAfterPlayDone, waitingForPlayStart, timers, playing,
                 dlgConnected, cmds, hist>>

\* handleError as it would be if an error ended the call.
HandleError_Hangup(c) ==
  /\ CanDeliver(c)
  /\ nEvents' = nEvents + 1
  /\ last' = Step(c, "error")
  /\ cmds' = [cmds EXCEPT ![c] = Append(@, Cmd("dlg.destroy", "error", c))]
  /\ dlgConnected' = [dlgConnected EXCEPT ![c] = FALSE]
  /\ UNCHANGED <<sess, hangupAfterPlayDone, waitingForPlayStart, timers, playing,
                 hist>>

\* handleError(error): logs.
HandleError(c) ==
  /\ CanDeliver(c)
  /\ nEvents' = nEvents + 1
  /\ last' = Step(c, "error")
  /\ UNCHANGED <<sess, hangupAfterPlayDone, waitingForPlayStart, timers, playing,
                 dlgConnected, cmds, hist>>

\* handleAudio as it would be if it cleared both flags at line 115.
HandleAudio_ClearsHangup(c) ==
  /\ CanDeliver(c)
  /\ nEvents' = nEvents + 1
  /\ waitingForPlayStart' = [waitingForPlayStart EXCEPT ![c] = FALSE]
  /\ hangupAfterPlayDone' = [hangupAfterPlayDone EXCEPT ![c] = FALSE]
  /\ cmds' = [cmds EXCEPT ![c] = Append(@, Cmd("play", "audio", c))]
  /\ playing' = [playing EXCEPT ![c] = @ + 1]
  /\ hist' = [hist EXCEPT ![c] = Append(@, "A")]
  /\ last' = Step(c, "audio")
  /\ UNCHANGED <<sess, timers, dlgConnected>>

\* handleAudio without line 115: waitingForPlayStart is left set.
HandleAudio_KeepsWaiting(c) ==
  /\ CanDeliver(c)
  /\ nEvents' = nEvents + 1
  /\ cmds' = [cmds EXCEPT ![c] = Append(@, Cmd("play", "audio", c))]
  /\ playing' = [playing EXCEPT ![c] = @ + 1]
  /\ hist' = [hist EXCEPT ![c] = Append(@, "A")]
  /\ last' = Step(c, "audio")
  /\ UNCHANGED <<sess, hangupAfterPlayDone, waitingForPlayStart, timers,
                 dlgConnected>>

\* handleAudio(dlg, audio) up to await this.play(audio.path).
HandleAudio(c) ==
  /\ CanDeliver(c)
  /\ nEvents' = nEvents + 1
  /\ waitingForPlayStart' = [waitingForPlayStart EXCEPT ![c] = FALSE]
  /\ cmds' = [cmds EXCEPT ![c] = Append(@, Cmd("play", "audio", c))]
  /\ playing' = [playing EXCEPT ![c] = @ + 1]
  /\ hist' = [hist EXCEPT ![c] = Append(@, "A")]
  /\ last' = Step(c, "audio")
  /\ UNCHANGED <<sess, hangupAfterPlayDone, timers, dlgConnected>>

\* The continuation of handleAudio as it would be without the `else` of
\* line 118: the dialogflow_start is sent after dlg.destroy() as well.
PlayDone_NoElse(c) ==
  /\ playing[c] > 0
  /\ playing' = [playing EXCEPT ![c] = @ - 1]
  /\ hist' = [hist EXCEPT ![c] = Append(@, "D")]
  /\ last' = Step(c, "playdone")
  /\ IF hangupAfterPlayDone[c]
       THEN /\ cmds' = [cmds EXCEPT ![c] =
                          @ \o <<Cmd("dlg.destroy", "play", c),
                                 [op |-> "dialogflow_start", by |-> "play",
                                  live |-> FALSE]>>]
            /\ dlgConnected' = [dlgConnected EXCEPT ![c] = FALSE]
       ELSE /\ cmds' = [cmds EXCEPT ![c] = Append(@, Cmd("dialogflow_start", "play", c))]
            /\ UNCHANGED dlgConnected
  /\ UNCHANGED <<sess, hangupAfterPlayDone, waitingForPlayStart, timers, nEvents>>

\* The continuation of handleAudio as it would be if line 118 repeated the
\* command of line 86, welcome event included.
PlayDone_Welcome(c) ==
  /\ playing[c] > 0
  /\ playing' = [playing EXCEPT ![c] = @ - 1]
  /\ hist' = [hist EXCEPT ![c] = Append(@, "D")]
  /\ last' = Step(c, "playdone")
  /\ IF hangupAfterPlayDone[c]
       THEN /\ cmds' = [cmds EXCEPT ![c] = Append(@, Cmd("dlg.destroy", "play", c))]
            /\ dlgConnected' = [dlgConnected EXCEPT ![c] = FALSE]
       ELSE /\ cmds' = [cmds EXCEPT ![c] =
                          Append(@, Cmd("dialogflow_start welcome", "play", c))]
            /\ UNCHANGED dlgConnected
  /\ UNCHANGED <<sess, hangupAfterPlayDone, waitingForPlayStart, timers, nEvents>>

\* this.play() resolved: handleAudio resumes after the await.
PlayDone(c) ==
  /\ playing[c] > 0
  /\ playing' = [playing EXCEPT ![c] = @ - 1]
  /\ hist' = [hist EXCEPT ![c] = Append(@, "D")]
  /\ last' = Step(c, "playdone")
  /\ IF hangupAfterPlayDone[c]
       THEN /\ cmds' = [cmds EXCEPT ![c] = Append(@, Cmd("dlg.destroy", "play", c))]
            /\ dlgConnected' = [dlgConnected EXCEPT ![c] = FALSE]
       ELSE /\ cmds' = [cmds EXCEPT ![c] = Append(@, Cmd("dialogflow_start", "play", c))]
            /\ UNCHANGED dlgConnected
  /\ UNCHANGED <<sess, hangupAfterPlayDone, waitingForPlayStart, timers, nEvents>>

\* this.play() rejected: handleAudio throws at the await; the rejection goes
\* to the unhandledRejection logger.
PlayFail(c) ==
  /\ playing[c] > 0
  /\ playing' = [playing EXCEPT ![c] = @ - 1]
  /\ hist' = [hist EXCEPT ![c] = Append(@, "F")]
  /\ last' = Step(c, "playfail")
  /\ UNCHANGED <<sess, hangupAfterPlayDone, waitingForPlayStart, timers,
                 dlgConnected, cmds, nEvents>>

\* The 'destroy' handler as it would be without line 77.
CallerHangup_KeepsEndpoint(c) ==
  /\ sess[c] = "up"
  /\ dlgConnected[c]
  /\ dlgConnected' = [dlgConnected EXCEPT ![c] = FALSE]
  /\ hist' = [hist EXCEPT ![c] = Append(@, "H")]
  /\ last' = Step(c, "bye")
  /\ UNCHANGED <<sess, hangupAfterPlayDone, waitingForPlayStart, timers, playing,
                 cmds, nEvents>>

\* dialog.on('destroy'): BYE from the caller.
CallerHangup(c) ==
  /\ sess[c] = "up"
  /\ dlgConnected[c]
  /\ dlgConnected' = [dlgConnected EXCEPT ![c] = FALSE]
  /\ cmds' = [cmds EXCEPT ![c] = Append(@, Cmd("endpoint.destroy", "bye", c))]
  /\ hist' = [hist EXCEPT ![c] = Append(@, "H")]
  /\ last' = Step(c, "bye")
  /\ UNCHANGED <<sess, hangupAfterPlayDone, waitingForPlayStart, timers, playing,
                 nEvents>>

Next ==
  \E c \in Calls :
    \/ Invite(c)
    \/ ConnectOk(c)
    \/ ConnectFail(c)
    \/ \E end \in BOOLEAN : HandleIntent(c, end)
    \/ TimerFire(c)
    \/ \E isFinal \in BOOLEAN : HandleTranscription(c, isFinal)
    \/ HandleEndOfUtterance(c)
    \/ HandleError(c)
    \/ HandleAudio(c)
    \/ PlayDone(c)
    \/ PlayFail(c)
    \/ CallerHangup(c)

Spec == Init /\ [][Next]_vars

\* The claim's fairness assumptions: an armed timer eventually fires and a
\* started playback eventually completes (play() resolves).
NextLive ==
  \E c \in Calls :
    \/ Invite(c)
    \/ ConnectOk(c)
    \/ ConnectFail(c)
    \/ \E end \in BOOLEAN : HandleIntent(c, end)
    \/ TimerFire(c)
    \/ \E isFinal \in BOOLEAN : HandleTranscription(c, isFinal)
    \/ HandleEndOfUtterance(c)
    \/ HandleError(c)
    \/ HandleAudio(c)
    \/ PlayDone(c)
    \/ CallerHangup(c)

LiveSpec ==
  /\ Init
  /\ [][NextLive]_vars
  /\ \A c \in Calls : WF_vars(TimerFire(c)) /\ WF_vars(PlayDone(c))

----------------------------------------------------------------------------
\* Reading the logs

Count(s, x) == Cardinality({i \in DOMAIN s : s[i] = x})
Pos(s, x) == CHOOSE i \in DOMAIN s : s[i] = x
Ops(c, op) == {i \in DOMAIN cmds[c] : cmds[c][i].op = op}
OpsBy(c, op, by) == {i \in Ops(c, op) : cmds[c][i].by = by}
NumOps(c, op) == Cardinality(Ops(c, op))
EventKinds == {"intent_end", "intent", "transcription", "transcription_final",
               "end_of_utterance", "error", "audio"}
\* The steps of the call that change its state, without the intents that
\* have end_interaction false.
Trace(c) == SelectSeq(hist[c], LAMBDA e : e # "N")

----------------------------------------------------------------------------
----------------------------------------------------------------------------
\* The case of C2: one end-interaction intent, then one audio event handled
\* before that intent's timer fires; no other audio, no caller hangup and no
\* failed playback.
EndThenAudio(c) ==
  /\ Count(hist[c], "I") = 1 /\ Count(hist[c], "A") = 1
  /\ Count(hist[c], "H") = 0 /\ Count(hist[c], "F") = 0
  /\ Pos(hist[c], "I") < Pos(hist[c], "A")
  /\ Count(hist[c], "T") = 1 => Pos(hist[c], "A") < Pos(hist[c], "T")

----------------------------------------------------------------------------
\* C3: with no audio event, whatever the interleaving of timer firings (also
\* of timers armed by repeated end-interaction intents) and a caller hangup,
\* dlg.destroy() is called at most once and never on a call that has ended.
C3_FallbackTerminatesOnce ==
  \A c \in Calls :
    Count(hist[c], "A") = 0 =>
      /\ NumOps(c, "dlg.destroy") <= 1
      /\ \A i \in Ops(c, "dlg.destroy") : cmds[c][i].live

----------------------------------------------------------------------------
\* C4: once the application has ended the call itself (dlg.destroy() from the
\* timer callback or from the completion of a playback), destroy() has been
\* called exactly once on the call's media endpoint.
C4_EndpointReleasedOnAppHangup ==
  \A c \in Calls :
    Ops(c, "dlg.destroy") # {} => NumOps(c, "endpoint.destroy") = 1

----------------------------------------------------------------------------
\* C5: after a caller hangup, in whatever state it found the call, the call
\* is ended and endpoint.destroy() has been called exactly once.
C5_CallerHangupReleasesEndpoint ==
  \A c \in Calls :
    Count(hist[c], "H") > 0 =>
      /\ ~dlgConnected[c]
      /\ NumOps(c, "endpoint.destroy") = 1
      /\ \A i \in Ops(c, "endpoint.destroy") : cmds[c][i].by = "bye"

\* The caller hung up during a playback with a fallback timer armed.
C5_Witness ==
  \E c \in Calls :
    /\ last = Step(c, "bye")
    /\ playing[c] > 0 /\ timers[c] > 0
    /\ NumOps(c, "endpoint.destroy") = 1

----------------------------------------------------------------------------
\* C6: no play and no dialogflow_start command is issued for a call that has
\* ended (by caller hangup, by the timer or by a playback's completion).
C6_NoCommandAfterTermination ==
  \A c \in Calls :
    \A i \in Ops(c, "play") \cup Ops(c, "dialogflow_start") : cmds[c][i].live

----------------------------------------------------------------------------
\* C7: as long as no end-interaction intent has been handled and the caller
\* has not hung up, every audio event has issued one play, every completed
\* playback has issued one dialogflow_start without the welcome event, and
\* the call has not been ended, however many turns have gone by.
C7_TurnsContinue ==
  \A c \in Calls :
    (sess[c] = "up" /\ Count(hist[c], "I") = 0 /\ Count(hist[c], "H") = 0) =>
      /\ NumOps(c, "play") = Count(hist[c], "A")
      /\ NumOps(c, "dialogflow_start") = Count(hist[c], "D")
      /\ NumOps(c, "dialogflow_start welcome") = 1
      /\ NumOps(c, "dlg.destroy") = 0 /\ NumOps(c, "endpoint.destroy") = 0
      /\ dlgConnected[c]

\* Two turns: a clip played, a turn without end_interaction, a second clip
\* played.
C7_Witness ==
  \E c \in Calls :
    /\ hist[c] = <<"A", "D", "N", "A", "D">>
    /\ NumOps(c, "dialogflow_start") = 2
    /\ dlgConnected[c]

----------------------------------------------------------------------------
----------------------------------------------------------------------------
\* C9: endpoint.destroy() is called at most once per call.
C9_EndpointDestroyedAtMostOnce ==
  \A c \in Calls : NumOps(c, "endpoint.destroy") <= 1

\* The caller hung up and a timer that was armed fired afterwards.
C9_Witness ==
  \E c \in Calls :
    /\ NumOps(c, "endpoint.destroy") = 1
    /\ last = Step(c, "timer")
    /\ OpsBy(c, "dlg.destroy", "timer") # {}

----------------------------------------------------------------------------
\* C10: handling a dialogflow error changes neither flag, arms no timer,
\* starts and ends no playback, does not end the call and issues no command.
C10_ErrorOnlyLogged ==
  [][\A c \in Calls :
       last' = Step(c, "error") =>
         /\ hangupAfterPlayDone' = hangupAfterPlayDone
         /\ waitingForPlayStart' = waitingForPlayStart
         /\ timers' = timers /\ playing' = playing
         /\ dlgConnected' = dlgConnected /\ cmds' = cmds
         /\ sess' = sess]_vars

\* An error arrived during a playback, after an end-interaction intent.
C10_Witness ==
  \E c \in Calls :
    /\ last = Step(c, "error")
    /\ playing[c] > 0 /\ hangupAfterPlayDone[c] /\ dlgConnected[c]


----------------------------------------------------------------------------
\* The state of one call: its flags, timers, playbacks, dialog and commands.
Session(c) ==
  <<sess[c], hangupAfterPlayDone[c], waitingForPlayStart[c], timers[c],
    playing[c], dlgConnected[c], cmds[c], hist[c]>>

\* C11: a step of one call (an event, a timer firing, a playback's end, a
\* hangup, its INVITE) changes neither flag of any other call and issues no
\* play, dialogflow_start or destroy command for any other call.
C11_CallsIndependent ==
  [][\A c \in Calls : \A d \in Calls \ {c} :
       last'.call = c =>
         /\ hangupAfterPlayDone'[d] = hangupAfterPlayDone[d]
         /\ waitingForPlayStart'[d] = waitingForPlayStart[d]
         /\ cmds'[d] = cmds[d]
         /\ Session(d)' = Session(d)]_vars

\* An end-interaction intent of one call was handled while the other call
\* was playing a clip with its own flags unset.
C11_Witness ==
  \E c \in Calls : \E d \in Calls \ {c} :
    /\ last = Step(c, "intent_end")
    /\ hangupAfterPlayDone[c] /\ waitingForPlayStart[c]
    /\ playing[d] > 0 /\ ~hangupAfterPlayDone[d] /\ ~waitingForPlayStart[d]


----------------------------------------------------------------------------
\* C12: when connectCaller() fails for a call, nothing of handleInvite after
\* it has run and nothing runs later: no dialogflow_start or other command
\* is issued for the call, no dialogflow event of it is handled and no
\* hangup of it is handled.
C12_NoSessionOnConnectFailure ==
  [][\A c \in Calls :
       /\ sess'[c] = "failed" =>
            /\ cmds'[c] = <<>> /\ hist'[c] = <<>>
            /\ ~dlgConnected'[c] /\ timers'[c] = 0 /\ playing'[c] = 0
            /\ ~hangupAfterPlayDone'[c] /\ ~waitingForPlayStart'[c]
       /\ sess[c] = "failed" => (last'.call # c /\ sess'[c] = "failed")]_vars

\* One call failed to connect while the other went on to handle events.
C12_Witness ==
  \E c \in Calls : \E d \in Calls \ {c} :
    /\ sess[c] = "failed" /\ cmds[c] = <<>>
    /\ sess[d] = "up" /\ hist[d] # <<>> /\ nEvents = MaxEvents


----------------------------------------------------------------------------
\* C13: a connected call has sent exactly one dialogflow_start with the
\* welcome event; it is the call's first command, sent by handleInvite before
\* any event of the call is handled, and every dialogflow_start sent after a
\* playback carries no welcome event.
C13_WelcomeOnlyOnFirstStart ==
  \A c \in Calls :
    /\ sess[c] # "up" => (cmds[c] = <<>> /\ hist[c] = <<>>)
    /\ sess[c] = "up" =>
         /\ Ops(c, "dialogflow_start welcome") = {1}
         /\ cmds[c][1].by = "invite"
         /\ \A i \in DOMAIN cmds[c] :
              (cmds[c][i].by = "play" /\ cmds[c][i].op # "dlg.destroy")
                => cmds[c][i].op = "dialogflow_start"
         /\ NumOps(c, "dialogflow_start") <= Count(hist[c], "D")

\* Two playbacks completed, each followed by a dialogflow_start without the
\* welcome event.
C13_Witness ==
  \E c \in Calls :
    /\ Ops(c, "dialogflow_start welcome") = {1}
    /\ NumOps(c, "dialogflow_start") = 2
    /\ Count(hist[c], "D") = 2

----------------------------------------------------------------------------
\* C14: the completion of a playback does exactly one of two things, chosen
\* by the value of hangupAfterPlayDone at that moment: if it is set,
\* dlg.destroy() is called, the call is ended and no dialogflow_start is
\* sent; otherwise one dialogflow_start is sent and the call is left as it
\* was.  So an end-interaction intent handled during a playback makes that
\* playback's completion end the call.
C14_CompletionHangsUpOrRestarts ==
  [][\A c \in Calls :
       last' = Step(c, "playdone") =>
         /\ Len(cmds'[c]) = Len(cmds[c]) + 1
         /\ SubSeq(cmds'[c], 1, Len(cmds[c])) = cmds[c]
         /\ LET new == cmds'[c][Len(cmds'[c])] IN
              IF hangupAfterPlayDone[c]
                THEN new.op = "dlg.destroy" /\ ~dlgConnected'[c]
                ELSE new.op = "dialogflow_start"
                     /\ dlgConnected'[c] = dlgConnected[c]
         /\ hangupAfterPlayDone'[c] = hangupAfterPlayDone[c]
         /\ playing'[c] = playing[c] - 1]_vars

\* A playback that began before the end-interaction intent has just ended
\* the call.
C14_Witness ==
  \E c \in Calls :
    /\ last = Step(c, "playdone")
    /\ hist[c] = <<"A", "I", "D">>
    /\ cmds[c][Len(cmds[c])] = [op |-> "dlg.destroy", by |-> "play", live |-> TRUE]
    /\ NumOps(c, "dialogflow_start") = 0


----------------------------------------------------------------------------
\* C15: at most one playback is in progress on a call's endpoint at any
\* time: an audio event that arrives while a clip is playing starts no
\* second play.
C15_OnePlaybackAtATime ==
  \A c \in Calls : playing[c] <= 1

----------------------------------------------------------------------------
\* C16: once the caller has hung up, a playback that was in progress and
\* completes afterwards issues nothing: no dialogflow_start and no
\* dlg.destroy() follows the endpoint.destroy() of the hangup.
C16_HangupSilencesPlayback ==
  \A c \in Calls :
    \A i \in Ops(c, "endpoint.destroy") :
      \A j \in DOMAIN cmds[c] : j > i => cmds[c][j].by # "play"

----------------------------------------------------------------------------
\* C17: a transcription (final or not), an end of utterance and an intent
\* whose end_interaction is false change neither flag, arm no timer, start
\* and end no playback, do not end the call and issue no command.
C17_LoggedEventsChangeNothing ==
  [][\A c \in Calls :
       (last'.call = c /\ last'.ev \in {"transcription", "transcription_final",
                                         "end_of_utterance", "intent"}) =>
         /\ hangupAfterPlayDone' = hangupAfterPlayDone
         /\ waitingForPlayStart' = waitingForPlayStart
         /\ timers' = timers /\ playing' = playing
         /\ dlgConnected' = dlgConnected /\ cmds' = cmds
         /\ sess' = sess]_vars

\* An intent without end_interaction was handled during a playback of a call
\* whose flags were unset.
C17_Witness ==
  \E c \in Calls :
    /\ last = Step(c, "intent")
    /\ playing[c] > 0 /\ dlgConnected[c]
    /\ ~hangupAfterPlayDone[c] /\ ~waitingForPlayStart[c] /\ timers[c] = 0

----------------------------------------------------------------------------
\* C18: waitingForPlayStart is false whenever a playback is in progress, in
\* either order of the audio event and the end-interaction intent, so a timer
\* that fires during a playback does not call dlg.destroy().
C18_TimerSparesPlayback ==
  [][\A c \in Calls :
       /\ playing'[c] > 0 => ~waitingForPlayStart'[c]
       /\ (last' = Step(c, "timer") /\ playing[c] > 0) => cmds'[c] = cmds[c]]_vars

----------------------------------------------------------------------------
\* C19: waitingForPlayStart is set only if hangupAfterPlayDone is; once set,
\* hangupAfterPlayDone is never cleared; and a playback that completes after
\* an end-interaction intent was handled sends no dialogflow_start.
C19_HangupFlagMonotonic ==
  [][\A c \in Calls :
       /\ waitingForPlayStart'[c] => hangupAfterPlayDone'[c]
       /\ hangupAfterPlayDone[c] => hangupAfterPlayDone'[c]
       /\ Count(hist[c], "I") > 0 => hangupAfterPlayDone[c]
       /\ (last' = Step(c, "playdone") /\ Count(hist[c], "I") > 0)
            => Ops(c, "dialogflow_start")' = Ops(c, "dialogflow_start")]_vars

\* After the end-interaction intent a first clip completed and a second one
\* was played and completed: neither sent a dialogflow_start.
C19_Witness ==
  \E c \in Calls :
    /\ hist[c] = <<"I", "A", "D", "A", "D">>
    /\ hangupAfterPlayDone[c] /\ ~waitingForPlayStart[c]
    /\ NumOps(c, "dialogflow_start") = 0
    /\ last = Step(c, "playdone")

====
